---- MODULE Spec2Model ----
(***************************************************************************)
(* Employee generator and statistics (src/main.js): main, generateEmployee- *)
(* Data, generateEmployee, generateBirthdate, getEmployeeStatistics and     *)
(* its helpers, as a state machine over the employee list, the wall clock   *)
(* and the random source.                                                   *)
(*                                                                          *)
(* JavaScript numbers are modelled as exact rationals plus the special      *)
(* values NaN, +Infinity, -Infinity and undefined.  Instants are epoch      *)
(* milliseconds.                                                            *)
(***************************************************************************)
EXTENDS Integers, Sequences, FiniteSets, TLC

(***************************************************************************)
(* Bounds of the model.                                                     *)
(***************************************************************************)
\* Length of a year in milliseconds.  The source's value is
\* 365.25 * 24 * 60 * 60 * 1000 = 31557600000 (main.js:120 and :276), which
\* is beyond TLC's 32-bit integers; the model keeps the structure of every
\* computation and scales the year.  No formula below depends on the value.
msPerYear == 4
\* Largest dtoIn.count.
MaxCount == 2
\* Number of milliseconds the wall clock may advance during one run.
MaxTicks == 1
\* Longest employee list handed directly to getEmployeeStatistics.
MaxLen == 3
\* The clock reading at the start (epoch ms).
StartClock == 3

(***************************************************************************)
(* JavaScript numbers.                                                      *)
(***************************************************************************)
RECURSIVE GCD(_, _)
GCD(a, b) == IF b = 0 THEN a ELSE GCD(b, a % b)

Abs(i) == IF i < 0 THEN -i ELSE i

\* The finite number n/d (d # 0), in lowest terms with a positive denominator.
Q(n, d) ==
    LET g == GCD(Abs(n), Abs(d))
        s == IF d < 0 THEN -1 ELSE 1
    IN  [k |-> "fin", n |-> (s * n) \div g, d |-> (s * d) \div g]

Int2Num(i) == Q(i, 1)
NaN == [k |-> "nan", n |-> 0, d |-> 1]
PosInf == [k |-> "inf", n |-> 1, d |-> 1]
NegInf == [k |-> "inf", n |-> -1, d |-> 1]
Undefined == [k |-> "undefined", n |-> 0, d |-> 1]

IsFin(x) == x.k = "fin"

\* x + y
Add(x, y) ==
    IF IsFin(x) /\ IsFin(y) THEN Q(x.n * y.d + y.n * x.d, x.d * y.d)
    ELSE IF x.k = "inf" /\ IsFin(y) THEN x
    ELSE IF y.k = "inf" /\ IsFin(x) THEN y
    ELSE IF x.k = "inf" /\ y.k = "inf" /\ x.n = y.n THEN x
    ELSE NaN

\* x - y
Sub(x, y) == Add(x, [y EXCEPT !.n = -y.n])

\* x * y, for finite operands (NaN otherwise: no other case arises)
Mul(x, y) == IF IsFin(x) /\ IsFin(y) THEN Q(x.n * y.n, x.d * y.d) ELSE NaN

\* x / y for a finite x and a finite y; 0/0 is NaN, x/0 is +-Infinity
Div(x, y) ==
    IF ~(IsFin(x) /\ IsFin(y)) THEN NaN
    ELSE IF y.n # 0 THEN Q(x.n * y.d, x.d * y.n)
    ELSE IF x.n = 0 THEN NaN
    ELSE IF x.n > 0 THEN PosInf ELSE NegInf

\* x < y and x <= y on finite numbers and infinities; FALSE when either is NaN
Less(x, y) ==
    IF IsFin(x) /\ IsFin(y) THEN x.n * y.d < y.n * x.d
    ELSE IF x.k = "inf" /\ y.k \in {"fin", "inf"} THEN x.n < 0 /\ (IsFin(y) \/ y.n > 0)
    ELSE IF IsFin(x) /\ y.k = "inf" THEN y.n > 0
    ELSE FALSE

Leq(x, y) == Less(x, y) \/ (x = y /\ x.k \in {"fin", "inf"})

\* Math.floor
MathFloor(x) == IF IsFin(x) THEN Q(x.n \div x.d, 1) ELSE IF x.k = "inf" THEN x ELSE NaN

\* Math.round: the nearest integer, a tie going to the larger one
MathRound(x) ==
    IF IsFin(x) THEN Q((2 * x.n + x.d) \div (2 * x.d), 1)
    ELSE IF x.k = "inf" THEN x ELSE NaN

(***************************************************************************)
(* Arrays.  JavaScript arrays are 0-based; sequences are 1-based.           *)
(***************************************************************************)
\* arr[i] for a string table: undefined when i is no index of arr
StrAt(arr, i) == IF i + 1 \in DOMAIN arr THEN arr[i + 1] ELSE "undefined"

\* arr[i] for an array of numbers: undefined when i is no index of arr
NumAt(arr, i) == IF i + 1 \in DOMAIN arr THEN arr[i + 1] ELSE Undefined

\* Array.prototype.sort(compareFn) for the compare functions of the source,
\* which are differences of a numeric key: compareFn(arr[i], arr[j]) is
\* key[i] - key[j].  Ascending by compareFn, elements that compare equal
\* keeping their order (ECMAScript 2019 and later): the element at index i
\* goes behind every element that compares less and every earlier element
\* that compares equal.
ArraySort(arr, key) ==
    LET zero == Int2Num(0)
        compareFn(j, i) == Sub(key[j], key[i])
        Rank(i) ==
            Cardinality({j \in DOMAIN arr : Less(compareFn(j, i), zero)})
            + Cardinality({j \in DOMAIN arr : j < i /\ compareFn(j, i) = zero})
            + 1
    IN  [p \in DOMAIN arr |-> arr[CHOOSE i \in DOMAIN arr : Rank(i) = p]]

(***************************************************************************)
(* Date.  A time value is a whole number of epoch milliseconds or NaN (an   *)
(* invalid date).  An ISO-8601 string "YYYY-MM-DDTHH:mm:ss.sssZ" is         *)
(* modelled by its two parts: the date-time to the second (as the count of  *)
(* whole seconds since the epoch) and the three-digit millisecond field.    *)
(***************************************************************************)
\* The years (of 365.25 = 1461/4 days) in ECMAScript's date range of
\* 100,000,000 days (8.64e15 ms) either side of the epoch.
DateRangeYears == (100000000 * 4) \div 1461
maxTimeValue == DateRangeYears * msPerYear

\* new Date(number): TimeClip, NaN beyond the range of Date and otherwise
\* the number truncated toward zero
NewDate(x) ==
    IF ~IsFin(x) THEN NaN
    ELSE IF Abs(x.n) > maxTimeValue * x.d THEN NaN
    ELSE IF x.n >= 0 THEN Int2Num(x.n \div x.d)
    ELSE Int2Num(-((-x.n) \div x.d))

\* Date.prototype.toISOString on a valid time value
toISOString(tv) == [sec |-> tv.n \div 1000, ms |-> tv.n % 1000]

\* new Date(isoString).getTime()
DateParse(iso) == iso.sec * 1000 + iso.ms

(***************************************************************************)
(* Data tables (main.js:182-234).                                           *)
(***************************************************************************)
maleNames == <<"Jan", "Petr", "Pavel", "Tomas", "Jiri", "Josef", "Martin",
               "Jaroslav", "Miroslav", "Frantisek">>
femaleNames == <<"Jana", "Marie", "Eva", "Anna", "Hana", "Vera", "Lenka",
                 "Petra", "Lucie", "Katerina">>
maleSurnames == <<"Novak", "Svoboda", "Novotny", "Dvorak", "Cerny",
                  "Prochazka", "Kucera", "Vesely", "Horak", "Nemec">>
femaleSurnames == <<"Novakova", "Svobodova", "Novotna", "Dvorakova", "Cerna",
                    "Prochazkova", "Kucerova", "Vesela", "Horakova", "Nemcova">>
workloads == <<10, 20, 30, 40>>

(***************************************************************************)
(* State.                                                                   *)
(***************************************************************************)
VARIABLES
    pc,          \* where the program is: "generate", "statistics", "ages",
                 \* "done", or "thrown" (an uncaught RangeError)
    dtoIn,       \* main's argument: [count, age: [min, max]]
    clock,       \* the wall clock, what new Date() reads (epoch ms)
    ticks,       \* how far the clock has advanced since the start
    employees,   \* the employee array (generateEmployeeData's, then the
                 \* argument of getEmployeeStatistics)
    bornAt,      \* history: for each generated employee, the instant
                 \* generateBirthdate read from the clock
    ages,        \* getEmployeeStatistics' local array ages (main.js:52)
    given,       \* history: the employee array as it was handed to the
                 \* first getEmployeeStatistics call
    locals,      \* getEmployeeStatistics' locals total and workloadCounts
    results      \* the summaries getEmployeeStatistics has returned so far

vars == <<pc, dtoIn, clock, ticks, employees, bornAt, ages, given, locals, results>>

(***************************************************************************)
(* Generator.                                                               *)
(***************************************************************************)
\* Variant: Math.round in place of Math.floor
RandomIndex_Round(r, length) == MathRound(Mul(r, Int2Num(length))).n

\* Math.floor(Math.random() * length), r being what Math.random() returned
RandomIndex(r, length) == MathFloor(Mul(r, Int2Num(length))).n

\* Variant: the random offset subtracted from oldestDate instead of added
generateBirthdate_Minus(minAge, maxAge, r) ==
    LET now == Int2Num(clock)
        oldestDate == Sub(now, Mul(maxAge, Int2Num(msPerYear)))
        youngestDate == Sub(now, Mul(minAge, Int2Num(msPerYear)))
        randomTimestamp == Sub(oldestDate, Mul(r, Sub(youngestDate, oldestDate)))
        birthdate == NewDate(randomTimestamp)
    IN  IF IsFin(birthdate)
        THEN [thrown |-> FALSE, value |-> toISOString(birthdate)]
        ELSE [thrown |-> TRUE, value |-> [sec |-> 0, ms |-> 0]]

\* generateBirthdate (main.js:272-292), r being what Math.random() returned.
\* thrown: toISOString's RangeError on an invalid date.
generateBirthdate(minAge, maxAge, r) ==
    LET now == Int2Num(clock)
        oldestDate == Sub(now, Mul(maxAge, Int2Num(msPerYear)))
        youngestDate == Sub(now, Mul(minAge, Int2Num(msPerYear)))
        randomTimestamp == Add(oldestDate, Mul(r, Sub(youngestDate, oldestDate)))
        birthdate == NewDate(randomTimestamp)
    IN  IF IsFin(birthdate)
        THEN [thrown |-> FALSE, value |-> toISOString(birthdate)]
        ELSE [thrown |-> TRUE, value |-> [sec |-> 0, ms |-> 0]]

\* generateEmployee (main.js:242-264); rnd holds what the five calls of
\* Math.random() returned, in the order they are made
generateEmployee(minAge, maxAge, rnd) ==
    LET gender == IF Less(rnd[1], Q(1, 2)) THEN "male" ELSE "female"
        name == IF gender = "male"
                THEN StrAt(maleNames, RandomIndex(rnd[2], Len(maleNames)))
                ELSE StrAt(femaleNames, RandomIndex(rnd[2], Len(femaleNames)))
        surname == IF gender = "male"
                   THEN StrAt(maleSurnames, RandomIndex(rnd[3], Len(maleSurnames)))
                   ELSE StrAt(femaleSurnames, RandomIndex(rnd[3], Len(femaleSurnames)))
        birthdate == generateBirthdate(minAge, maxAge, rnd[4])
        workload == IF RandomIndex(rnd[5], Len(workloads)) + 1 \in DOMAIN workloads
                    THEN workloads[RandomIndex(rnd[5], Len(workloads)) + 1]
                    ELSE -1
    IN  [thrown |-> birthdate.thrown,
         value |-> [name |-> name, surname |-> surname, gender |-> gender,
                    birthdate |-> birthdate.value, workload |-> workload]]

(***************************************************************************)
(* Aggregator.                                                              *)
(***************************************************************************)
\* Number.prototype.toString on a workload
NumberToString(w) ==
    CASE w = 10 -> "10" [] w = 20 -> "20" [] w = 30 -> "30" [] w = 40 -> "40"
      [] OTHER -> "other"

\* The loop of getWorkloadCounts (main.js:103-105).  A workload outside the
\* four keys increments a property of its own and leaves the four counters
\* alone.
RECURSIVE CountLoop(_, _)
CountLoop(counts, emps) ==
    IF emps = <<>> THEN counts
    ELSE LET key == NumberToString(Head(emps).workload)
         IN  CountLoop(IF key \in DOMAIN counts
                       THEN [counts EXCEPT ![key] = @ + 1]
                       ELSE counts,
                       Tail(emps))

\* The object { 10: 0, 20: 0, 30: 0, 40: 0 } (main.js:96-101)
ZeroCounts == [key \in {"10", "20", "30", "40"} |-> 0]

\* Variant: the loop starts at the second employee
getWorkloadCounts_SkipFirst(emps) ==
    CountLoop(ZeroCounts, IF emps = <<>> THEN emps ELSE Tail(emps))

\* Variant: the counters live outside the function and are not reset
getWorkloadCounts_Shared(emps) == CountLoop(locals.workloadCounts, emps)

\* getWorkloadCounts (main.js:95-108)
getWorkloadCounts(emps) == CountLoop(ZeroCounts, emps)

\* (now - birth) / (1000 * 60 * 60 * 24 * 365.25), main.js:116 and :120
AgeAt(birthdate, now) ==
    LET birth == DateParse(birthdate)
    IN  Div(Int2Num(now - birth), Int2Num(msPerYear))

\* calculateAge (main.js:115-123): new Date() reads the clock at each call
calculateAge(birthdate) == AgeAt(birthdate, clock)

\* numbers.reduce((acc, num) => acc + num, 0)
RECURSIVE ReduceSum(_, _)
ReduceSum(acc, numbers) ==
    IF numbers = <<>> THEN acc ELSE ReduceSum(Add(acc, Head(numbers)), Tail(numbers))

\* calculateAverage (main.js:130-134)
calculateAverage(numbers) ==
    LET sum == ReduceSum(Int2Num(0), numbers)
        average == Div(sum, Int2Num(Len(numbers)))
    IN  Div(MathRound(Mul(average, Int2Num(10))), Int2Num(10))

\* Math.min(...numbers) and Math.max(...numbers) on finite numbers
\* Variant: the first element instead of the least
MathMin_First(numbers) == IF numbers = <<>> THEN PosInf ELSE Head(numbers)

RECURSIVE MathMin(_)
MathMin(numbers) ==
    IF numbers = <<>> THEN PosInf
    ELSE LET rest == MathMin(Tail(numbers))
         IN  IF Less(Head(numbers), rest) THEN Head(numbers) ELSE rest

RECURSIVE MathMax(_)
MathMax(numbers) ==
    IF numbers = <<>> THEN NegInf
    ELSE LET rest == MathMax(Tail(numbers))
         IN  IF Less(rest, Head(numbers)) THEN Head(numbers) ELSE rest

\* Variant: an even-length array yields its upper middle element
calculateMedian_UpperMiddle(numbers) ==
    LET sorted == ArraySort(numbers, numbers)
        middle == Len(sorted) \div 2
    IN  [ret |-> NumAt(sorted, middle), numbers |-> numbers]

\* calculateMedian (main.js:141-153).  ret is the value returned, numbers
\* the argument array as the call leaves it (the sort works on a copy).
calculateMedian(numbers) ==
    LET sorted == ArraySort(numbers, numbers)
        middle == Len(sorted) \div 2
    IN  [ret |-> IF Len(sorted) % 2 = 0
                 THEN Div(Add(NumAt(sorted, middle - 1), NumAt(sorted, middle)),
                          Int2Num(2))
                 ELSE NumAt(sorted, middle),
         numbers |-> numbers]

\* Variant: no guard for an empty selection
calculateFemaleAverageWorkload_NoGuard(emps) ==
    LET femaleEmployees == SelectSeq(emps, LAMBDA emp : emp.gender = "female")
    IN  calculateAverage([i \in DOMAIN femaleEmployees |->
                             Int2Num(femaleEmployees[i].workload)])

\* calculateFemaleAverageWorkload (main.js:160-169)
calculateFemaleAverageWorkload(emps) ==
    LET femaleEmployees == SelectSeq(emps, LAMBDA emp : emp.gender = "female")
        femaleWorkloads == [i \in DOMAIN femaleEmployees |->
                               Int2Num(femaleEmployees[i].workload)]
    IN  IF Len(femaleEmployees) = 0 THEN Int2Num(0)
        ELSE calculateAverage(femaleWorkloads)

\* Variant: the argument array itself is sorted, not a copy
sortEmployeesByWorkload_InPlace(emps) ==
    LET sorted == ArraySort(emps, [i \in DOMAIN emps |-> Int2Num(emps[i].workload)])
    IN  [ret |-> sorted, employees |-> sorted]

\* sortEmployeesByWorkload (main.js:176-179).  ret is the array returned,
\* employees the argument array as the call leaves it.
sortEmployeesByWorkload(emps) ==
    [ret |-> ArraySort(emps, [i \in DOMAIN emps |-> Int2Num(emps[i].workload)]),
     employees |-> emps]

\* getEmployeeStatistics from line 55 on, given its locals so far; summary
\* is the object returned, employees the argument array as the call leaves it
Summarize(emps, loc, agesNow) ==
    LET averageAge == calculateAverage(agesNow)
        minAge == MathFloor(MathMin(agesNow))
        maxAge == MathFloor(MathMax(agesNow))
        ageMedian == calculateMedian(agesNow)
        wl == [i \in DOMAIN emps |-> Int2Num(emps[i].workload)]
        workloadMedian == calculateMedian(wl)
        femaleAverageWorkload == calculateFemaleAverageWorkload(emps)
        sorted == sortEmployeesByWorkload(emps)
    IN  [summary |->
           [total |-> loc.total,
            workload10 |-> loc.workloadCounts["10"],
            workload20 |-> loc.workloadCounts["20"],
            workload30 |-> loc.workloadCounts["30"],
            workload40 |-> loc.workloadCounts["40"],
            averageAge |-> averageAge,
            minAge |-> minAge,
            maxAge |-> maxAge,
            medianAge |-> MathFloor(ageMedian.ret),
            medianWorkload |-> workloadMedian.ret,
            averageWomenWorkload |-> femaleAverageWorkload,
            sortedByWorkload |-> sorted.ret],
         ages |-> ageMedian.numbers,
         employees |-> sorted.employees]

(***************************************************************************)
(* Inputs.                                                                  *)
(***************************************************************************)
\* What five successive calls of Math.random() may return (each value in
\* [0, 1)): the least value, values near 1, and values at and just below
\* the 0.5 that decides the gender
RandomDraws ==
    { <<Q(0, 1), Q(0, 1), Q(0, 1), Q(0, 1), Q(0, 1)>>,
      <<Q(19, 20), Q(19, 20), Q(19, 20), Q(19, 20), Q(19, 20)>>,
      <<Q(0, 1), Q(19, 20), Q(1, 2), Q(1, 2), Q(1, 4)>>,
      <<Q(1, 2), Q(0, 1), Q(19, 20), Q(19, 20), Q(1, 2)>>,
      <<Q(49, 100), Q(1, 2), Q(0, 1), Q(0, 1), Q(3, 4)>>,
      <<Q(19, 20), Q(1, 4), Q(1, 4), Q(1, 2), Q(0, 1)>> }

\* dtoIn.age: whole years, fractions of a year (bounds that are no whole
\* number of milliseconds, before and after the epoch), a range reaching
\* beyond the earliest Date, and a range given upside down
AgeRanges ==
    { [min |-> Q(1, 1), max |-> Q(2, 1)],
      [min |-> Q(1, 8), max |-> Q(3, 8)],
      [min |-> Q(9, 8), max |-> Q(11, 8)],
      [min |-> Q(0, 1), max |-> Q(DateRangeYears + 10, 1)],
      [min |-> Q(2, 1), max |-> Q(1, 1)] }

DtoIns == [count : 0..MaxCount, age : AgeRanges]

\* The ISO string of the birthdate of somebody who is y years and ms
\* milliseconds old at StartClock
BornAgo(y, ms) == toISOString(Int2Num(StartClock - (y * msPerYear + ms)))

\* Employees handed directly to getEmployeeStatistics: aged 20, 30 and 40
\* years, and one millisecond short of 40 years, at StartClock
StatEmployees ==
    { [name |-> "Jan", surname |-> "Novak", gender |-> "male",
       birthdate |-> BornAgo(20, 0), workload |-> 10],
      [name |-> "Jana", surname |-> "Novakova", gender |-> "female",
       birthdate |-> BornAgo(30, 0), workload |-> 20],
      [name |-> "Petr", surname |-> "Svoboda", gender |-> "male",
       birthdate |-> BornAgo(40, 0), workload |-> 30],
      [name |-> "Marie", surname |-> "Svobodova", gender |-> "female",
       birthdate |-> BornAgo(40, -1), workload |-> 40] }

RECURSIVE SeqsUpTo(_, _)
SeqsUpTo(S, n) ==
    IF n = 0 THEN {<<>>}
    ELSE LET shorter == SeqsUpTo(S, n - 1)
         IN  shorter \cup {Append(q, x) : q \in shorter, x \in S}

\* The lists of section 8's examples: workloads [10, 20, 30, 40]
ExampleLists ==
    LET e(w) == CHOOSE x \in StatEmployees : x.workload = w
    IN  {<<e(10), e(20), e(30), e(40)>>}

StatLists == SeqsUpTo(StatEmployees, MaxLen) \cup ExampleLists

(***************************************************************************)
(* main(dtoIn): generateEmployeeData, then getEmployeeStatistics.           *)
(***************************************************************************)
Init ==
    /\ pc = "generate"
    /\ dtoIn \in DtoIns
    /\ clock = StartClock
    /\ ticks = 0
    /\ employees = <<>>
    /\ bornAt = <<>>
    /\ ages = <<>>
    /\ given = <<>>
    /\ locals = [total |-> 0, workloadCounts |-> ZeroCounts]
    /\ results = <<>>

\* Variant: i <= dtoIn.count
LoopCondition_Leq == Len(employees) <= dtoIn.count

\* The loop condition i < dtoIn.count (main.js:31); i is employees.length
LoopCondition == Len(employees) < dtoIn.count

\* One iteration of generateEmployeeData's loop (main.js:31-34)
GenerateStep ==
    /\ pc = "generate"
    /\ LoopCondition
    /\ \E rnd \in RandomDraws :
          LET e == generateEmployee(dtoIn.age.min, dtoIn.age.max, rnd)
          IN  IF e.thrown
              THEN /\ pc' = "thrown"
                   /\ UNCHANGED <<employees, bornAt>>
              ELSE /\ employees' = Append(employees, e.value)
                   /\ bornAt' = Append(bornAt, clock)
                   /\ pc' = pc
    /\ UNCHANGED <<dtoIn, clock, ticks, ages, given, locals, results>>

\* The loop ends and generateEmployeeData returns (main.js:31, 36); main
\* hands the list to getEmployeeStatistics (main.js:11)
GenerateReturn ==
    /\ pc = "generate"
    /\ ~LoopCondition
    /\ pc' = "statistics"
    /\ given' = employees
    /\ UNCHANGED <<dtoIn, clock, ticks, employees, bornAt, ages, locals, results>>

\* getEmployeeStatistics, lines 44-49: total and the bucket counts
GetStatisticsCall ==
    /\ pc = "statistics"
    /\ locals' = [total |-> Len(employees),
                  workloadCounts |-> getWorkloadCounts(employees)]
    /\ ages' = <<>>
    /\ pc' = "ages"
    /\ UNCHANGED <<dtoIn, clock, ticks, employees, bornAt, given, results>>

\* One callback of employees.map at line 52
CalculateAgeStep ==
    /\ pc = "ages"
    /\ Len(ages) < Len(employees)
    /\ ages' = Append(ages, calculateAge(employees[Len(ages) + 1].birthdate))
    /\ UNCHANGED <<pc, dtoIn, clock, ticks, employees, bornAt, given, locals, results>>

\* getEmployeeStatistics, lines 55-87
GetStatisticsReturn ==
    /\ pc = "ages"
    /\ Len(ages) = Len(employees)
    /\ LET r == Summarize(employees, locals, ages)
       IN  /\ results' = Append(results, r.summary)
           /\ ages' = r.ages
           /\ employees' = r.employees
    /\ pc' = "done"
    /\ UNCHANGED <<dtoIn, clock, ticks, bornAt, given, locals>>

\* The caller summarizes the same list a second time
Resummarize ==
    /\ pc = "done"
    /\ Len(results) < 2
    /\ pc' = "statistics"
    /\ UNCHANGED <<dtoIn, clock, ticks, employees, bornAt, ages, given, locals, results>>

\* The wall clock advances by a millisecond.  Only a later new Date() can
\* see it, so it is taken where one may follow.
Tick ==
    /\ ticks < MaxTicks
    /\ \/ pc = "generate" /\ LoopCondition
       \/ pc = "ages" /\ Len(ages) < Len(employees)
    /\ clock' = clock + 1
    /\ ticks' = ticks + 1
    /\ UNCHANGED <<pc, dtoIn, employees, bornAt, ages, given, locals, results>>

Next ==
    \/ GenerateStep
    \/ GenerateReturn
    \/ GetStatisticsCall
    \/ CalculateAgeStep
    \/ GetStatisticsReturn
    \/ Tick

Spec == Init /\ [][Next]_vars

(***************************************************************************)
(* getEmployeeStatistics called directly, and called again on the same      *)
(* list.                                                                    *)
(***************************************************************************)
InitStat ==
    /\ pc = "statistics"
    /\ dtoIn = [count |-> 0, age |-> [min |-> Q(0, 1), max |-> Q(0, 1)]]
    /\ clock = StartClock
    /\ ticks = 0
    /\ employees \in StatLists
    /\ bornAt = <<>>
    /\ ages = <<>>
    /\ given = employees
    /\ locals = [total |-> 0, workloadCounts |-> ZeroCounts]
    /\ results = <<>>

NextStat ==
    \/ GetStatisticsCall
    \/ CalculateAgeStep
    \/ GetStatisticsReturn
    \/ Resummarize
    \/ Tick

SpecStat == InitStat /\ [][NextStat]_vars

(***************************************************************************)
(* Properties of the generator, checked under Spec.                         *)
(***************************************************************************)
Range(seq) == {seq[i] : i \in DOMAIN seq}

Returned == pc \in {"statistics", "ages", "done"}

\* Both ends of the sampling interval, taken at instant now, are time values
\* a Date can hold
Representable(now) ==
    \A a \in {dtoIn.age.min, dtoIn.age.max} :
        LET t == Sub(Int2Num(now), Mul(a, Int2Num(msPerYear)))
        IN  Leq(Int2Num(-maxTimeValue), t) /\ Leq(t, Int2Num(maxTimeValue))

\* generateEmployeeData never runs past count employees, returns exactly
\* count of them, and getEmployeeStatistics reports that total
CountsAgree ==
    /\ pc = "generate" => Len(employees) <= dtoIn.count
    /\ Returned => Len(employees) = dtoIn.count /\ given = employees
    /\ \A k \in DOMAIN results : results[k].total = dtoIn.count

C1_ThrownWitness == pc = "thrown" /\ ~Representable(clock)

\* 0 <= minAge <= maxAge
OrderedRange ==
    /\ Leq(Int2Num(0), dtoIn.age.min)
    /\ Leq(dtoIn.age.min, dtoIn.age.max)

\* The age of generated employee i at the instant it was generated
AgeAtBirth(i) == AgeAt(employees[i].birthdate, bornAt[i])

\* a years is a whole number of milliseconds
WholeMs(a) == Mul(a, Int2Num(msPerYear)).d = 1

\* C2 as stated: for 0 <= minAge <= maxAge, the age of every generated
\* employee at its generation instant lies in [minAge, maxAge]; that is, its
\* birthdate lies between now - maxAge*msPerYear and now - minAge*msPerYear
\* inclusive.
C2_AgeWithinBounds ==
    OrderedRange =>
        \A i \in DOMAIN bornAt :
            LET birth == Int2Num(DateParse(employees[i].birthdate))
                now == Int2Num(bornAt[i])
            IN  /\ Leq(dtoIn.age.min, AgeAtBirth(i))
                /\ Leq(AgeAtBirth(i), dtoIn.age.max)
                /\ Leq(Sub(now, Mul(dtoIn.age.max, Int2Num(msPerYear))), birth)
                /\ Leq(birth, Sub(now, Mul(dtoIn.age.min, Int2Num(msPerYear))))

\* C2 amended: for 0 <= minAge <= maxAge, the age of every generated
\* employee at its generation instant is within less than one millisecond
\* of [minAge, maxAge] (the sampled instant is cut to whole milliseconds),
\* and inside [minAge, maxAge] when both bounds are whole milliseconds.
C2_AgeWithinOneMs ==
    OrderedRange =>
        \A i \in DOMAIN bornAt :
            LET oneMs == Q(1, msPerYear)
            IN  /\ Less(Sub(dtoIn.age.min, oneMs), AgeAtBirth(i))
                /\ Less(AgeAtBirth(i), Add(dtoIn.age.max, oneMs))
                /\ WholeMs(dtoIn.age.min) /\ WholeMs(dtoIn.age.max) =>
                      /\ Leq(dtoIn.age.min, AgeAtBirth(i))
                      /\ Leq(AgeAtBirth(i), dtoIn.age.max)

\* Two employees were generated from whole-year bounds minAge < maxAge, one
\* of them strictly inside the interval
C2_Witness ==
    /\ OrderedRange
    /\ WholeMs(dtoIn.age.min) /\ WholeMs(dtoIn.age.max)
    /\ Len(bornAt) >= 2
    /\ \E i \in DOMAIN bornAt :
          /\ Less(dtoIn.age.min, AgeAtBirth(i))
          /\ Less(AgeAtBirth(i), dtoIn.age.max)
          /\ AgeAtBirth(i).d = msPerYear

\* C8: every generated employee has gender "male" or "female", a workload in
\* {10, 20, 30, 40}, and a name and a surname from the ten-entry tables of
\* its own gender.
C8_EmployeeFromOwnTables ==
    \A i \in DOMAIN bornAt :
        LET e == employees[i]
        IN  /\ e.gender \in {"male", "female"}
            /\ e.workload \in {10, 20, 30, 40}
            /\ e.gender = "male" =>
                  /\ e.name \in Range(maleNames)
                  /\ e.surname \in Range(maleSurnames)
            /\ e.gender = "female" =>
                  /\ e.name \in Range(femaleNames)
                  /\ e.surname \in Range(femaleSurnames)
            /\ \A t \in {maleNames, femaleNames, maleSurnames, femaleSurnames} :
                  Len(t) = 10 /\ Cardinality(Range(t)) = 10

\* A man and a woman were generated, one of them with the last entries of
\* its tables
C8_Witness ==
    /\ \E i, j \in DOMAIN bornAt :
          /\ employees[i].gender = "male"
          /\ employees[j].gender = "female"
          /\ employees[j].name = femaleNames[10]
          /\ employees[j].surname = femaleSurnames[10]
          /\ employees[j].workload = 40

(***************************************************************************)
(* Properties of the aggregator, checked under SpecStat.                    *)
(***************************************************************************)
\* The summary the latest call returned
LastResult == results[Len(results)]

\* How many employees of emps have workload w
HowMany(emps, w) == Cardinality({i \in DOMAIN emps : emps[i].workload = w})

\* C3: in every summary workload10 + workload20 + workload30 + workload40 =
\* total, and each workloadN is the number of employees with workload N.
C3_BucketsSumToTotal ==
    \A k \in DOMAIN results :
        LET s == results[k]
        IN  /\ s.total = Len(given)
            /\ s.workload10 + s.workload20 + s.workload30 + s.workload40 = s.total
            /\ s.workload10 = HowMany(given, 10)
            /\ s.workload20 = HowMany(given, 20)
            /\ s.workload30 = HowMany(given, 30)
            /\ s.workload40 = HowMany(given, 40)

\* A list of three employees in two buckets has been summarized
C3_Witness ==
    /\ results # <<>>
    /\ Len(given) = 3
    /\ results[1].workload10 = 2
    /\ results[1].workload40 = 1

\* a and b hold the same records the same number of times
SameBag(a, b) ==
    /\ Len(a) = Len(b)
    /\ \A x \in Range(a) \cup Range(b) :
          Cardinality({i \in DOMAIN a : a[i] = x})
              = Cardinality({i \in DOMAIN b : b[i] = x})

\* C4: sortedByWorkload is non-decreasing in workload and a permutation of
\* the input, and the input list keeps its employees in their order.
C4_SortedCopyInputUntouched ==
    /\ employees = given
    /\ \A k \in DOMAIN results :
          LET sorted == results[k].sortedByWorkload
          IN  /\ \A i, j \in DOMAIN sorted :
                    i < j => sorted[i].workload <= sorted[j].workload
              /\ SameBag(sorted, given)

\* A list that was not in workload order has been summarized
C4_Witness ==
    /\ pc = "done"
    /\ Len(given) = 3
    /\ \E i, j \in DOMAIN given : i < j /\ given[i].workload > given[j].workload
    /\ results[1].sortedByWorkload # given
    /\ employees = given

\* The k-th smallest of nums, counted with repetitions
KthSmallest(nums, k) ==
    CHOOSE v \in Range(nums) :
        /\ Cardinality({i \in DOMAIN nums : Less(nums[i], v)}) < k
        /\ k <= Cardinality({i \in DOMAIN nums : Leq(nums[i], v)})

\* The median of a non-empty nums: its middle value in ascending order, or
\* the mean of its two middle values
MedianOf(nums) ==
    LET n == Len(nums)
    IN  IF n % 2 = 1 THEN KthSmallest(nums, (n + 1) \div 2)
        ELSE Div(Add(KthSmallest(nums, n \div 2), KthSmallest(nums, n \div 2 + 1)),
                 Int2Num(2))

WorkloadsOf(emps) == [i \in DOMAIN emps |-> Int2Num(emps[i].workload)]

\* C5: calculateMedian returns the middle element of the sorted sequence
\* (odd length) or the mean of the two middle elements (even length); so
\* medianWorkload is one of 10, 15, 20, 25, 30, 35, 40, and is 25 for the
\* workloads [10, 20, 30, 40].
C5_MedianIsMiddle ==
    /\ \A k \in DOMAIN results :
          given # <<>> =>
              /\ results[k].medianWorkload = MedianOf(WorkloadsOf(given))
              /\ results[k].medianWorkload \in {Int2Num(5 * h) : h \in 2..8}
              /\ WorkloadsOf(given) = [i \in 1..4 |-> Int2Num(10 * i)] =>
                    results[k].medianWorkload = Int2Num(25)
    /\ pc = "done" /\ ages # <<>> => calculateMedian(ages).ret = MedianOf(ages)

\* The workloads [10, 20, 30, 40] have been summarized
C5_Witness ==
    /\ pc = "done"
    /\ WorkloadsOf(given) = [i \in 1..4 |-> Int2Num(10 * i)]
    /\ results[1].medianWorkload = Int2Num(25)

\* v is a number of tenths, and none is nearer to sum / n
NearestTenth(v, sum, n) ==
    /\ IsFin(v)
    /\ Mul(v, Int2Num(10)).d = 1
    /\ 2 * Abs(Mul(v, Int2Num(10)).n * n - 10 * sum) <= n

RECURSIVE SumOf(_)
SumOf(ints) == IF ints = <<>> THEN 0 ELSE Head(ints) + SumOf(Tail(ints))

\* C6: averageWomenWorkload is 0 when the list holds no female employee (the
\* empty list included), and otherwise the mean workload of the female
\* employees rounded to one decimal place.
C6_WomenAverage ==
    \A k \in DOMAIN results :
        LET women == SelectSeq(given, LAMBDA e : e.gender = "female")
            sum == SumOf([i \in DOMAIN women |-> women[i].workload])
        IN  IF women = <<>>
            THEN results[k].averageWomenWorkload = Int2Num(0)
            ELSE NearestTenth(results[k].averageWomenWorkload, sum, Len(women))

\* A non-empty list without women has been summarized
C6_Witness ==
    /\ results # <<>>
    /\ Len(given) >= 2
    /\ \A i \in DOMAIN given : given[i].gender = "male"
    /\ results[1].averageWomenWorkload = Int2Num(0)

\* m is the whole number with m <= x < m + 1
IsFloorOf(m, x) ==
    /\ IsFin(m) /\ m.d = 1
    /\ Leq(m, x)
    /\ Less(x, Add(m, Int2Num(1)))

\* C7: for a non-empty list, minAge is the floor of the smallest derived
\* age, maxAge the floor of the largest, medianAge the floor of the median
\* of the derived ages, so minAge <= medianAge <= maxAge; for the ages
\* [20, 30, 40] they are 20, 40 and 30.
C7_AgeExtremesAndMedian ==
    pc = "done" /\ ages # <<>> =>
        LET s == LastResult
        IN  /\ \E i \in DOMAIN ages :
                  /\ \A j \in DOMAIN ages : Leq(ages[i], ages[j])
                  /\ IsFloorOf(s.minAge, ages[i])
            /\ \E i \in DOMAIN ages :
                  /\ \A j \in DOMAIN ages : Leq(ages[j], ages[i])
                  /\ IsFloorOf(s.maxAge, ages[i])
            /\ IsFloorOf(s.medianAge, MedianOf(ages))
            /\ Leq(s.minAge, s.medianAge)
            /\ Leq(s.medianAge, s.maxAge)
            /\ ages = <<Int2Num(20), Int2Num(30), Int2Num(40)>> =>
                  /\ s.minAge = Int2Num(20)
                  /\ s.maxAge = Int2Num(40)
                  /\ s.medianAge = Int2Num(30)

\* Employees aged 20, 30 and 40 have been summarized
C7_Witness ==
    /\ pc = "done"
    /\ ages = <<Int2Num(20), Int2Num(30), Int2Num(40)>>
    /\ LastResult.minAge = Int2Num(20)
    /\ LastResult.maxAge = Int2Num(40)
    /\ LastResult.medianAge = Int2Num(30)

\* The fields of a summary that do not come from the clock
ClockFree(s) ==
    <<s.total, s.workload10, s.workload20, s.workload30, s.workload40,
      s.medianWorkload, s.averageWomenWorkload, s.sortedByWorkload>>

\* C9 as stated: summarizing the same unchanged list twice yields identical
\* results.
C9_SameResultTwice == Len(results) = 2 => results[1] = results[2]

\* C9 amended: summarizing the same unchanged list twice yields the same
\* total, bucket counts, medianWorkload, averageWomenWorkload and
\* sortedByWorkload; averageAge, minAge, maxAge and medianAge are the same
\* too when the clock has not advanced between the reads of the two calls.
C9_SameResultAtSameInstant ==
    Len(results) = 2 =>
        /\ ClockFree(results[1]) = ClockFree(results[2])
        /\ ticks = 0 => results[1] = results[2]

\* A list of at least two employees has been summarized twice at one instant
C9_Witness ==
    /\ Len(results) = 2
    /\ Len(given) >= 2
    /\ ticks = 0
    /\ results[1] = results[2]

\* C10: within one getEmployeeStatistics call every age is derived against
\* one shared "now": two employees with the same birthdate get the same age.
C10_OneSharedNow ==
    \A i, j \in DOMAIN ages :
        employees[i].birthdate = employees[j].birthdate => ages[i] = ages[j]

====
